---- MODULE Spec2Model ----
(***************************************************************************)
(* api_server_with_key.py: an OpenAI-shaped POST /chat/completions         *)
(* endpoint that authenticates a bearer token, forwards the chat to        *)
(* Ollama's /api/chat and reshapes the answer.                             *)
(*                                                                         *)
(* The server is modelled as NReq request slots served by one asyncio      *)
(* event loop (the handler is `async def`), a wall clock, and the Ollama   *)
(* backend as an environment that answers an outstanding call.             *)
(***************************************************************************)
EXTENDS Integers, Sequences, FiniteSets, TLC

\* ------------------------------------------------------------- bounds
NReq == 2
MaxMsgs == 2
MaxTime == 1

Requests == 1..NReq

\* ------------------------------------------------- JSON / Python values
Absent == "<absent>"      \* a key that is not in a JSON object
Null == "<null>"          \* JSON null / Python None
Object == "<object>"      \* a JSON object (its fields are given beside it)
NoKey == "unset"         \* os.getenv("API") when the variable is unset (None)

VARIABLES
  SERVER_API_KEY,    \* line 16, read once at import
  uuid_calls,        \* how many times uuid.uuid4() has been called
  default_id,        \* ChatCompletionResponse.id's class-level default
  default_created,   \* ChatCompletionResponse.created's class-level default
  now,               \* int(time.time())
  pc,                \* pc[r]: where request r is in its lifecycle
  req,               \* req[r]: the inbound request (header, body, arrival time)
  sent,              \* sent[r]: the payloads r has POSTed to Ollama, in order
  reply,             \* reply[r]: what requests.post gave r (<<>> before it returns)
  outcome            \* outcome[r]: the HTTP response delivered for r

vars == <<SERVER_API_KEY, uuid_calls, default_id, default_created, now,
          pc, req, sent, reply, outcome>>

\* ---------------------------------------------------------- inbound data
ValidRoles == {"user", "assistant", "system"}

InboundRoles == ValidRoles \cup {"tool"}

Contents == {"hi", "yo"}

Models == {"llama3", "phi3"}

Tokens == {"sk-1", "sk-10"}

\* A message as it arrives: role, content, and whether it carries a further
\* key (such as "name") that ChatMessage does not declare.
RawMessages == [role : InboundRoles, content : Contents, extra : BOOLEAN]

RECURSIVE SeqsUpTo(_, _)
SeqsUpTo(S, n) ==
  IF n = 0 THEN {<<>>}
  ELSE LET shorter == SeqsUpTo(S, n - 1)
       IN shorter \cup {Append(s, x) : s \in {t \in shorter : Len(t) = n - 1}, x \in S}

GarbageBody == [kind |-> "garbage", model |-> Absent, messages |-> <<>>]

JsonBody(model, messages) == [kind |-> "json", model |-> model, messages |-> messages]

Bodies ==
  {GarbageBody} \cup
  {JsonBody(m, ms) : m \in Models \cup {Absent}, ms \in SeqsUpTo(RawMessages, MaxMsgs)}

NoHeader == [scheme |-> "", token |-> ""]

Creds ==
  {NoHeader} \cup
  [scheme : {"Bearer", "bearer", "Basic"}, token : Tokens]

\* ---------------------------------------------------------- backend data
NoAnswer(kind) ==
  [kind |-> kind, http |-> 0, json |-> "", model |-> Absent, message |-> Absent,
   content |-> Absent]

HttpAnswer(http, json) ==
  [kind |-> "response", http |-> http, json |-> json, model |-> Absent,
   message |-> Absent, content |-> Absent]

JsonObject(model, message, content) ==
  [kind |-> "response", http |-> 200, json |-> "object", model |-> model,
   message |-> message, content |-> content]

BackendModels == {"llama3:latest"}

BackendContents == {"", "hello"}

BackendOutcomes ==
  {NoAnswer("ConnectionError"), NoAnswer("Timeout")} \cup
  {HttpAnswer(s, "object") : s \in {404, 500}} \cup
  {HttpAnswer(200, "invalid"), HttpAnswer(200, "array")} \cup
  {JsonObject(m, msg, Absent) : m \in BackendModels \cup {Absent, Null}, msg \in {Absent, Null}} \cup
  {JsonObject(m, Object, c) : m \in BackendModels \cup {Absent, Null},
                               c \in BackendContents \cup {Absent, Null}}

\* Inputs of the concurrent specification: one representative of each class
\* of header, body and backend answer.
SampleCreds ==
  {NoHeader, [scheme |-> "Bearer", token |-> "sk-1"], [scheme |-> "Bearer", token |-> "sk-10"]}

SampleBodies ==
  {GarbageBody,
   JsonBody("llama3", <<[role |-> "user", content |-> "hi", extra |-> FALSE]>>),
   JsonBody("llama3", <<[role |-> "tool", content |-> "hi", extra |-> FALSE]>>)}

SampleOutcomes ==
  {NoAnswer("ConnectionError"),
   HttpAnswer(200, "array"),
   JsonObject("llama3:latest", Object, "hello")}

\* -------------------------------------------------------- HTTP responses
\* An error response: the status, the detail text, the WWW-Authenticate
\* challenge ("" when the header is not set) and no body.
HTTPException(status, detail, challenge) ==
  [status |-> status, detail |-> detail, challenge |-> challenge, body |-> <<>>]

\* FastAPI's answer to a body that fails to parse or to validate.
RequestValidationError == HTTPException(422, "RequestValidationError", "")

\* Starlette's answer to an exception the handler does not catch.
InternalServerError == HTTPException(500, "Internal Server Error", "")

Ok(response) ==
  [status |-> 200, detail |-> "", challenge |-> "", body |-> <<response>>]

NoOutcome == [status |-> 0, detail |-> "", challenge |-> "", body |-> <<>>]

\* ------------------------------------------------------------ validation
\* The field declared as `role: str`: any role is let through.
ValidRole_AnyString(role) == role \in InboundRoles

\* role: Literal["user", "assistant", "system"]
ValidRole(role) == role \in ValidRoles

\* pydantic builds a ChatMessage from a JSON object: the declared fields are
\* kept, an undeclared key is ignored.
ChatMessage(raw) == [role |-> raw.role, content |-> raw.content]

\* Whether a parsed JSON body validates as a ChatCompletionRequest.
ValidationPasses(body) ==
  /\ body.kind = "json"
  /\ body.model # Absent
  /\ \A i \in 1..Len(body.messages) : ValidRole(body.messages[i].role)

ChatCompletionRequest(body) ==
  [model |-> body.model,
   messages |-> [i \in 1..Len(body.messages) |-> ChatMessage(body.messages[i])]]

\* -------------------------------------------------------- authentication
Lower(scheme) ==
  CASE scheme \in {"Bearer", "bearer"} -> "bearer"
    [] scheme = "Basic" -> "basic"
    [] OTHER -> scheme

\* HTTPBearer() with auto_error: the exceptions it may raise for a header
\* ({} when it hands the credentials on). The status of its rejection is 403
\* in the FastAPI releases before 0.122 and 401 (with a challenge) after.
bearer_scheme(cred) ==
  IF cred.scheme = "" \/ cred.token = ""
  THEN {HTTPException(403, "Not authenticated", ""),
        HTTPException(401, "Not authenticated", "Bearer")}
  ELSE IF Lower(cred.scheme) # "bearer"
  THEN {HTTPException(403, "Invalid authentication credentials", ""),
        HTTPException(401, "Invalid authentication credentials", "Bearer")}
  ELSE {}

\* The exceptions check_api_key raises for the credentials HTTPBearer hands it.
check_api_key(credentials) ==
  IF credentials.scheme # "Bearer" \/ credentials.token # SERVER_API_KEY
  THEN {HTTPException(401, "Invalid or missing API key", "Bearer")}
  ELSE {}

\* Depends(check_api_key), itself Depends(bearer_scheme).
AuthErrors(cred) ==
  IF bearer_scheme(cred) # {} THEN bearer_scheme(cred) ELSE check_api_key(cred)

\* ------------------------------------------------------------ translation
\* msg.dict()
MsgDict(msg) == [role |-> msg.role, content |-> msg.content]

\* Only the last turn is forwarded (request.messages[-1:]).
ollama_payload_LastOnly(request) ==
  [model |-> request.model,
   messages |-> IF Len(request.messages) = 0 THEN <<>>
                ELSE <<[role |-> request.messages[Len(request.messages)].role,
                        content |-> request.messages[Len(request.messages)].content]>>,
   stream |-> FALSE]

ollama_payload(request) ==
  [model |-> request.model,
   messages |-> [i \in 1..Len(request.messages) |-> MsgDict(request.messages[i])],
   stream |-> FALSE]

\* The answer is read from the field /api/generate uses, which /api/chat
\* never sets: ollama_data.get("response", "").
assistant_message_content_Generate(ollama_data) == ""

\* ollama_data.get("message", {}).get("content", "")
assistant_message_content(ollama_data) ==
  IF ollama_data.message = Absent \/ ollama_data.content = Absent
  THEN ""
  ELSE ollama_data.content

\* No default is given: ollama_data.get("model").
actual_model_used_NoDefault(ollama_data, request) ==
  IF ollama_data.model = Absent THEN Null ELSE ollama_data.model

\* ollama_data.get("model", request.model)
actual_model_used(ollama_data, request) ==
  IF ollama_data.model = Absent THEN request.model ELSE ollama_data.model

ResponseChatMessage(role, content) == [role |-> role, content |-> content]

ChatCompletionChoice(message) ==
  [index |-> 0, message |-> message, finish_reason |-> "stop"]

\* id and created are not passed: the instance takes the class-level defaults.
ChatCompletionResponse(model, choices) ==
  [id |-> default_id, object |-> "chat.completion", created |-> default_created,
   model |-> model, choices |-> choices]

\* The try block of create_chat_completion, given what requests.post did:
\* the set of responses the caller may get.
TranslateReply(request, o) ==
  IF o.kind # "response"
  THEN {HTTPException(503, o.kind, "")}                  \* requests.post raises
  ELSE IF o.http >= 400
  THEN {HTTPException(503, "HTTPError", "")}             \* raise_for_status()
  ELSE IF o.json = "invalid"
  THEN {HTTPException(503, "JSONDecodeError", ""),       \* requests >= 2.27
        InternalServerError}                             \* older: a ValueError
  ELSE IF o.json # "object"
  THEN {InternalServerError}                             \* no .get on a list
  ELSE IF o.message \notin {Absent, Object}
  THEN {InternalServerError}                             \* no .get on None
  ELSE IF assistant_message_content(o) = Null \/ actual_model_used(o, request) = Null
  THEN {InternalServerError}                             \* pydantic ValidationError
  ELSE {Ok(ChatCompletionResponse(
              actual_model_used(o, request),
              <<ChatCompletionChoice(
                  ResponseChatMessage("assistant", assistant_message_content(o)))>>))}

\* ----------------------------------------------------------------- state
NoReq == [cred |-> NoHeader, body |-> GarbageBody, received |-> 0]

Init ==
  /\ SERVER_API_KEY \in {"sk-1", NoKey}
  /\ uuid_calls = 1
  /\ default_id = 1
  /\ now = 0
  /\ default_created = 0
  /\ pc = [r \in Requests |-> "idle"]
  /\ req = [r \in Requests |-> NoReq]
  /\ sent = [r \in Requests |-> <<>>]
  /\ reply = [r \in Requests |-> <<>>]
  /\ outcome = [r \in Requests |-> NoOutcome]

\* The handler is a coroutine of the event loop and requests.post blocks the
\* thread: while a call is outstanding the loop runs nothing else.
EventLoopFree == \A q \in Requests : pc[q] # "inflight"

Finish(r, response) ==
  /\ pc' = [pc EXCEPT ![r] = "done"]
  /\ outcome' = [outcome EXCEPT ![r] = response]

\* A request arrives and FastAPI reads and parses its body.
Receive(r, creds, bodies) ==
  /\ EventLoopFree
  /\ pc[r] = "idle"
  /\ \E cred \in creds, body \in bodies :
       /\ req' = [req EXCEPT ![r] = [cred |-> cred, body |-> body, received |-> now]]
       /\ IF body.kind = "garbage"
          THEN Finish(r, RequestValidationError)
          ELSE /\ pc' = [pc EXCEPT ![r] = "parsed"]
               /\ UNCHANGED outcome
  /\ UNCHANGED <<SERVER_API_KEY, uuid_calls, default_id, default_created, now, sent, reply>>

\* The dependencies are solved: bearer_scheme, then check_api_key.
Authenticate(r) ==
  /\ EventLoopFree
  /\ pc[r] = "parsed"
  /\ IF AuthErrors(req[r].cred) # {}
     THEN \E e \in AuthErrors(req[r].cred) : Finish(r, e)
     ELSE /\ pc' = [pc EXCEPT ![r] = "authed"]
          /\ UNCHANGED outcome
  /\ UNCHANGED <<SERVER_API_KEY, uuid_calls, default_id, default_created, now, req, sent, reply>>

\* The body parameter is validated against ChatCompletionRequest.
Validate(r) ==
  /\ EventLoopFree
  /\ pc[r] = "authed"
  /\ IF ValidationPasses(req[r].body)
     THEN /\ pc' = [pc EXCEPT ![r] = "validated"]
          /\ UNCHANGED outcome
     ELSE Finish(r, RequestValidationError)
  /\ UNCHANGED <<SERVER_API_KEY, uuid_calls, default_id, default_created, now, req, sent, reply>>

\* The handler builds ollama_payload and enters requests.post.
CallOllama(r) ==
  /\ EventLoopFree
  /\ pc[r] = "validated"
  /\ sent' = [sent EXCEPT ![r] = Append(@, ollama_payload(ChatCompletionRequest(req[r].body)))]
  /\ pc' = [pc EXCEPT ![r] = "inflight"]
  /\ UNCHANGED <<SERVER_API_KEY, uuid_calls, default_id, default_created, now, req, reply, outcome>>

\* requests.post returns or raises, and the handler runs to its end.
OllamaReturns(r, outcomes) ==
  /\ pc[r] = "inflight"
  /\ \E o \in outcomes :
       /\ reply' = [reply EXCEPT ![r] = <<o>>]
       /\ \E response \in TranslateReply(ChatCompletionRequest(req[r].body), o) :
            Finish(r, response)
  /\ UNCHANGED <<SERVER_API_KEY, uuid_calls, default_id, default_created, now, req, sent>>

\* A second passes.
Tick ==
  /\ now < MaxTime
  /\ now' = now + 1
  /\ UNCHANGED <<SERVER_API_KEY, uuid_calls, default_id, default_created,
                 pc, req, sent, reply, outcome>>

\* The server under concurrent requests.
Next ==
  \/ \E r \in Requests : Receive(r, SampleCreds, SampleBodies)
  \/ \E r \in Requests : Authenticate(r)
  \/ \E r \in Requests : Validate(r)
  \/ \E r \in Requests : CallOllama(r)
  \/ \E r \in Requests : OllamaReturns(r, SampleOutcomes)
  \/ Tick

Spec == Init /\ [][Next]_vars

\* One request in isolation, over every header, body and backend answer.
NextOne ==
  \/ Receive(1, Creds, Bodies)
  \/ Authenticate(1)
  \/ Validate(1)
  \/ CallOllama(1)
  \/ OllamaReturns(1, BackendOutcomes)

SpecOne == Init /\ [][NextOne]_vars

\* ---------------------------------------------------------------- claims
Done(r) == pc[r] = "done"

Succeeded(r) == Done(r) /\ outcome[r].status = 200

Response(r) == outcome[r].body[1]

\* The token is missing, the scheme is not Bearer, or the token is not the
\* configured key.
BadCredential(cred) ==
  \/ cred = NoHeader
  \/ cred.scheme # "Bearer"
  \/ cred.token # SERVER_API_KEY

HasInvalidRole(body) ==
  \E i \in 1..Len(body.messages) : body.messages[i].role \notin {"user", "assistant", "system"}

\* The backend's answer is {"model": string, "message": {"content": string}}.
WellFormed(o) ==
  /\ o.kind = "response" /\ o.http = 200 /\ o.json = "object"
  /\ o.model \notin {Absent, Null}
  /\ o.message = Object
  /\ o.content \notin {Absent, Null}

\* The backend call failed, or its body is not a chat answer.
BackendFailed(o) ==
  \/ o.kind # "response"
  \/ o.http >= 400
  \/ o.json # "object"
  \/ o.message = Null
  \/ o.message = Object /\ o.content = Null
  \/ o.model = Null

\* A success status and a JSON object whose fields, where present, have the
\* expected types.
AbsenceTolerated(o) ==
  /\ o.kind = "response" /\ o.http = 200 /\ o.json = "object"
  /\ o.model # Null
  /\ o.message \in {Absent, Object}
  /\ o.message = Object => o.content # Null

\* One choice: index 0, finish_reason "stop", role "assistant".
CompleteResponse(response) ==
  /\ DOMAIN response = {"id", "object", "created", "model", "choices"}
  /\ response.object = "chat.completion"
  /\ Len(response.choices) = 1
  /\ response.choices[1].index = 0
  /\ response.choices[1].finish_reason = "stop"
  /\ response.choices[1].message.role = "assistant"

\* C1: no two successful responses of one server process carry the same id.
C1_IdNeverRepeats ==
  \A r \in Requests, q \in Requests :
    r # q /\ Succeeded(r) /\ Succeeded(q) => Response(r).id # Response(q).id

\* C2: a request whose bearer token is missing, of another scheme or not the
\* configured key ends in 401 whatever its body is, and no call to the
\* backend is issued for it.
C2_BadTokenIs401 ==
  \A r \in Requests :
    pc[r] # "idle" /\ BadCredential(req[r].cred) =>
      /\ sent[r] = <<>>
      /\ Done(r) => outcome[r].status = 401

\* C3 as stated: a request with a message whose role is outside {user,
\* assistant, system} ends in 422 and the backend is never contacted for it;
\* the backend is called only after validation and authentication passed.
C3_InvalidRoleIs422 ==
  \A r \in Requests :
    /\ pc[r] # "idle" /\ HasInvalidRole(req[r].body) =>
         /\ sent[r] = <<>>
         /\ Done(r) => outcome[r].status = 422
    /\ sent[r] # <<>> =>
         ~HasInvalidRole(req[r].body) /\ ~BadCredential(req[r].cred)

\* C3 as amended: for a request with a message whose role is outside {user,
\* assistant, system} the backend is never contacted; it ends in 422 when its
\* bearer token is accepted and in the authentication guard's rejection (401,
\* or HTTPBearer's 403) otherwise; the backend is called only after
\* validation and authentication passed.
C3_InvalidRoleRejected ==
  \A r \in Requests :
    /\ pc[r] # "idle" /\ HasInvalidRole(req[r].body) =>
         /\ sent[r] = <<>>
         /\ Done(r) /\ ~BadCredential(req[r].cred) => outcome[r].status = 422
         /\ Done(r) /\ BadCredential(req[r].cred) => outcome[r].status \in {401, 403}
    /\ sent[r] # <<>> =>
         ~HasInvalidRole(req[r].body) /\ ~BadCredential(req[r].cred)

C3_Witness ==
  \E r \in Requests :
    /\ Done(r)
    /\ HasInvalidRole(req[r].body)
    /\ ~BadCredential(req[r].cred)
    /\ outcome[r].status = 422
    /\ sent[r] = <<>>

\* C4: a valid request with the correct token, answered by the backend with a
\* well-formed native response, gets exactly one choice, with index 0,
\* finish_reason "stop", role "assistant" and the backend's message.content.
C4_WellFormedTranslated ==
  \A r \in Requests :
    Done(r) /\ reply[r] # <<>> /\ WellFormed(reply[r][1]) =>
      /\ outcome[r].status = 200
      /\ Len(outcome[r].body) = 1
      /\ CompleteResponse(Response(r))
      /\ Response(r).choices[1].message.content = reply[r][1].content

C4_Witness ==
  \E r \in Requests :
    /\ Succeeded(r)
    /\ ~BadCredential(req[r].cred)
    /\ WellFormed(reply[r][1])
    /\ reply[r][1].content = "hello"
    /\ Response(r).choices[1].message.content = "hello"

\* C5: when the backend call ends in a network failure, a timeout, a
\* non-success status or a malformed or unparseable body, the request fails
\* with 503 carrying the cause, and with no response body.
C5_BackendFailureIs503 ==
  \A r \in Requests :
    Done(r) /\ reply[r] # <<>> /\ BackendFailed(reply[r][1]) =>
      /\ outcome[r].status = 503
      /\ outcome[r].detail # ""
      /\ outcome[r].body = <<>>

\* A step of request q.
Step(q) ==
  \/ Receive(q, SampleCreds, SampleBodies)
  \/ Authenticate(q)
  \/ Validate(q)
  \/ CallOllama(q)
  \/ OllamaReturns(q, SampleOutcomes)

\* C6: while one request's call to the backend is outstanding, every other
\* unfinished request can take its next step: nothing exclusive is held
\* across the call.
C6_OthersProgress ==
  \A r \in Requests, q \in Requests :
    r # q /\ pc[r] = "inflight" /\ ~Done(q) => ENABLED Step(q)

\* C7: the payload sent to the backend has the inbound model, the inbound
\* messages in the same number and order with the same role and content,
\* and stream false; nothing is added.
C7_PayloadFaithful ==
  \A r \in Requests :
    \A k \in 1..Len(sent[r]) :
      /\ DOMAIN sent[r][k] = {"model", "messages", "stream"}
      /\ sent[r][k].model = req[r].body.model
      /\ sent[r][k].stream = FALSE
      /\ Len(sent[r][k].messages) = Len(req[r].body.messages)
      /\ \A i \in 1..Len(req[r].body.messages) :
           /\ DOMAIN sent[r][k].messages[i] = {"role", "content"}
           /\ sent[r][k].messages[i].role = req[r].body.messages[i].role
           /\ sent[r][k].messages[i].content = req[r].body.messages[i].content

C7_Witness ==
  \E r \in Requests :
    /\ Len(sent[r]) = 1
    /\ Len(req[r].body.messages) = 2
    /\ req[r].body.messages[1].role # req[r].body.messages[2].role
    /\ req[r].body.messages[1].content # req[r].body.messages[2].content
    /\ req[r].body.messages[1].extra
    /\ sent[r][1].messages[1].role = "system"
    /\ sent[r][1].messages[2].role = "user"
    /\ sent[r][1].model = "phi3"

\* C8: the created timestamp of a response is the time it was built: not
\* before the request arrived, and not after now.
C8_CreatedIsCurrent ==
  \A r \in Requests :
    Succeeded(r) =>
      /\ Response(r).created >= req[r].received
      /\ Response(r).created <= now

\* C9: a request issues at most one call to the backend, none after a
\* failure, and ends in exactly one outcome: a complete response, 401, 422
\* or 503.
C9_OneCallOneOutcome ==
  \A r \in Requests :
    /\ Len(sent[r]) <= 1
    /\ ~Done(r) => outcome[r] = NoOutcome
    /\ Done(r) => outcome[r].status \in {200, 401, 422, 503}
    /\ Done(r) => (outcome[r].status = 200 <=> outcome[r].body # <<>>)

\* C10: when the backend answers with a success status and a JSON object, the
\* content is "" if message or message.content is absent, the model is the
\* backend's if present and the requested one otherwise, and the request
\* succeeds with a complete response.
C10_DefaultsApplied ==
  \A r \in Requests :
    Done(r) /\ reply[r] # <<>> /\ AbsenceTolerated(reply[r][1]) =>
      /\ Succeeded(r)
      /\ CompleteResponse(Response(r))
      /\ \/ reply[r][1].message = Object /\ reply[r][1].content # Absent
            /\ Response(r).choices[1].message.content = reply[r][1].content
         \/ (reply[r][1].message = Absent \/ reply[r][1].content = Absent)
            /\ Response(r).choices[1].message.content = ""
      /\ \/ reply[r][1].model # Absent /\ Response(r).model = reply[r][1].model
         \/ reply[r][1].model = Absent /\ Response(r).model = req[r].body.model

C10_Witness ==
  \E r \in Requests :
    /\ Succeeded(r)
    /\ reply[r][1].json = "object"
    /\ reply[r][1].message = Absent
    /\ reply[r][1].model = Absent
    /\ Response(r).choices[1].message.content = ""
    /\ Response(r).model = "phi3"

====
